---------------------------- MODULE Spec2Model ----------------------------
(***************************************************************************)
(* pico2signalk (src/pico.py): decoder of the Simarine Pico binary         *)
(* protocol.  The module models the program as a state machine: the        *)
(* bounded-retry connect, the config exchange, the construction of the     *)
(* sensor registry and the telemetry loop, together with the pure          *)
(* functions they use (field decoder, CRC, unit conversions).              *)
(*                                                                         *)
(* Representation of Python values                                         *)
(*   bytes        sequence of integers 0..255                              *)
(*   int          PyInt(n)                                                 *)
(*   float        PyFloat(n, d): the decimal n/d, d the number of units    *)
(*                per 1 the code's scaling yields (100, 1000, ...)         *)
(*   str          PyStr(s), s the sequence of code points                  *)
(*   [a, b]       PyList(a, b)                                             *)
(*   dict         function from keys to values; where the code depends on *)
(*                the insertion order a sequence of keys goes with it      *)
(***************************************************************************)
EXTENDS Integers, Sequences, FiniteSets, TLC

-----------------------------------------------------------------------------
(* Python values *)

PyInt(n) == [t |-> "int", n |-> n, d |-> 1, s |-> <<>>]

PyFloat(n, d) == [t |-> "float", n |-> n, d |-> d, s |-> <<>>]

PyStr(s) == [t |-> "str", n |-> 0, d |-> 1, s |-> s]

PyList(a, b) == [t |-> "list", n |-> 0, d |-> 1, s |-> <<a, b>>]

\* the empty dict
EmptyDict == [k \in {} |-> 0]

\* dict[k] = v
DictSet(dict, k, v) == [x \in (DOMAIN dict) \cup {k} |-> IF x = k THEN v ELSE dict[x]]

\* dict.update(other)
DictUpdate(dict, other) ==
  [x \in (DOMAIN dict) \cup (DOMAIN other) |-> IF x \in DOMAIN other THEN other[x] ELSE dict[x]]

Min(a, b) == IF a < b THEN a ELSE b

Max(a, b) == IF a > b THEN a ELSE b

\* Python's seq[i:j] for 0-based i, j (negative values count from the end;
\* out-of-range values are clipped, never an error)
Slice(seq, i, j) ==
  LET n  == Len(seq)
      lo == IF i < 0 THEN Max(n + i, 0) ELSE Min(i, n)
      hi == IF j < 0 THEN Max(n + j, 0) ELSE Min(j, n)
  IN  IF hi <= lo THEN <<>> ELSE SubSeq(seq, lo + 1, hi)

\* Python's seq[i:]
SliceFrom(seq, i) == Slice(seq, i, Len(seq))

\* int.from_bytes with the low byte first
RECURSIVE FromBytes_little(_)
FromBytes_little(data) ==
  IF data = <<>> THEN 0
  ELSE data[1] + 256 * FromBytes_little(Tail(data))

\* int.from_bytes(data) with the default byte order "big"
RECURSIVE FromBytes(_)
FromBytes(data) ==
  IF data = <<>> THEN 0
  ELSE FromBytes(SubSeq(data, 1, Len(data) - 1)) * 256 + data[Len(data)]

\* bytes.find(b"\x00\xff"): the 0-based index of the first occurrence, or -1
Find00FF(bs) ==
  LET hits == {i \in 1..(Len(bs) - 1) : bs[i] = 0 /\ bs[i + 1] = 255}
  IN  IF hits = {} THEN -1 ELSE (CHOOSE i \in hits : \A j \in hits : i <= j) - 1

IsCont(b) == b >= 128 /\ b <= 191

\* bytes.decode(): strict UTF-8.  [ok |-> FALSE] stands for UnicodeDecodeError
RECURSIVE Utf8Decode(_)
Utf8Decode(bs) ==
  IF bs = <<>> THEN [ok |-> TRUE, s |-> <<>>]
  ELSE
    LET b == bs[1]
        n == Len(bs)
        w == IF b < 128 THEN 1
             ELSE IF b >= 194 /\ b <= 223 /\ n >= 2 /\ IsCont(bs[2]) THEN 2
             ELSE IF b >= 224 /\ b <= 239 /\ n >= 3 /\ IsCont(bs[2]) /\ IsCont(bs[3])
                     /\ (b = 224 => bs[2] >= 160) /\ (b = 237 => bs[2] <= 159) THEN 3
             ELSE IF b >= 240 /\ b <= 244 /\ n >= 4 /\ IsCont(bs[2]) /\ IsCont(bs[3])
                     /\ IsCont(bs[4])
                     /\ (b = 240 => bs[2] >= 144) /\ (b = 244 => bs[2] <= 143) THEN 4
             ELSE 0
        cp == IF w = 1 THEN b
              ELSE IF w = 2 THEN (b - 192) * 64 + (bs[2] - 128)
              ELSE IF w = 3 THEN (b - 224) * 4096 + (bs[2] - 128) * 64 + (bs[3] - 128)
              ELSE (b - 240) * 262144 + (bs[2] - 128) * 4096 + (bs[3] - 128) * 64
                   + (bs[4] - 128)
    IN  IF w = 0 THEN [ok |-> FALSE, s |-> <<>>]
        ELSE LET rest == Utf8Decode(SubSeq(bs, w + 1, n))
             IN  IF rest.ok THEN [ok |-> TRUE, s |-> <<cp>> \o rest.s]
                 ELSE rest

-----------------------------------------------------------------------------
(* Frame field decoder *)

\* the sentinel payload b"\x7f\xff\xff\xff"
Sentinel == <<127, 255, 255, 255>>

\* a decoder whose text case cuts the remaining bytes from the unstripped
\* response: an unterminated text then gives up one byte only
getNextField_unstripped(response) ==
  LET field_nr   == response[1]
      field_type == response[2]
  IN  CASE field_type = 1 ->
             LET data == Slice(response, 2, 6)
             IN  [st |-> "ok", nr |-> field_nr,
                  data |-> PyList(FromBytes(Slice(data, 0, 2)), FromBytes(Slice(data, 2, 4))),
                  rest |-> SliceFrom(response, 7)]
        [] field_type = 3 ->
             LET data == Slice(response, 7, 11)
                 rest == SliceFrom(response, 12)
             IN  IF data = Sentinel
                 THEN [st |-> "ok", nr |-> field_nr, data |-> PyStr(<<>>), rest |-> rest]
                 ELSE [st |-> "ok", nr |-> field_nr,
                       data |-> PyList(FromBytes(Slice(data, 0, 2)),
                                       FromBytes(Slice(data, 2, 4))),
                       rest |-> rest]
        [] field_type = 4 ->
             LET stripped == SliceFrom(response, 7)
                 index    == Find00FF(stripped)
                 word     == Utf8Decode(Slice(stripped, 0, index))
             IN  IF word.ok
                 THEN [st |-> "ok", nr |-> field_nr, data |-> PyStr(word.s),
                       rest |-> SliceFrom(response, index + 2)]
                 ELSE [st |-> "decode", nr |-> field_nr, data |-> PyStr(<<>>),
                       rest |-> <<>>]
        [] OTHER ->
             [st |-> "none", nr |-> field_nr, data |-> PyStr(<<>>), rest |-> <<>>]

\* getNextField: [st |-> "ok", nr, data, rest], or "none" where the function
\* falls off its match statement and returns None, or "decode" where
\* bytes.decode() raises
getNextField(response) ==
  LET field_nr   == response[1]
      field_type == response[2]
  IN  CASE field_type = 1 ->
             LET data == Slice(response, 2, 6)
             IN  [st |-> "ok", nr |-> field_nr,
                  data |-> PyList(FromBytes(Slice(data, 0, 2)), FromBytes(Slice(data, 2, 4))),
                  rest |-> SliceFrom(response, 7)]
        [] field_type = 3 ->
             LET data == Slice(response, 7, 11)
                 rest == SliceFrom(response, 12)
             IN  IF data = Sentinel
                 THEN [st |-> "ok", nr |-> field_nr, data |-> PyStr(<<>>), rest |-> rest]
                 ELSE [st |-> "ok", nr |-> field_nr,
                       data |-> PyList(FromBytes(Slice(data, 0, 2)),
                                       FromBytes(Slice(data, 2, 4))),
                       rest |-> rest]
        [] field_type = 4 ->
             LET stripped == SliceFrom(response, 7)
                 index    == Find00FF(stripped)
                 word     == Utf8Decode(Slice(stripped, 0, index))
             IN  IF word.ok
                 THEN [st |-> "ok", nr |-> field_nr, data |-> PyStr(word.s),
                       rest |-> SliceFrom(stripped, index + 2)]
                 ELSE [st |-> "decode", nr |-> field_nr, data |-> PyStr(<<>>),
                       rest |-> <<>>]
        [] OTHER ->
             [st |-> "none", nr |-> field_nr, data |-> PyStr(<<>>), rest |-> <<>>]

\* the loop of parseResponse; the unpacking of None raises TypeError
RECURSIVE parseFields(_, _)
parseFields(dict, response) ==
  IF Len(response) > 6
  THEN LET f == getNextField(response)
       IN  IF f.st = "ok" THEN parseFields(DictSet(dict, f.nr, f.data), f.rest)
           ELSE IF f.st = "none" THEN [ok |-> FALSE, err |-> "TypeError", dict |-> dict]
           ELSE [ok |-> FALSE, err |-> "UnicodeDecodeError", dict |-> dict]
  ELSE [ok |-> TRUE, err |-> "", dict |-> dict]

\* parseResponse: strips the 14-byte header, then decodes fields
parseResponse(response) == parseFields(EmptyDict, SliceFrom(response, 14))

-----------------------------------------------------------------------------
(* CRC engine *)

\* bitwise exclusive or of two naturals
RECURSIVE Xor(_, _)
Xor(a, b) ==
  IF a = 0 THEN b
  ELSE IF b = 0 THEN a
  ELSE 2 * Xor(a \div 2, b \div 2) + ((a + b) % 2)

\* one left shift of the 16-bit register; bit 16 falling out applies the
\* generator 0x11189 (its low 16 bits 0x1189 = 4489)
\* (4489 = 2^12 + 2^8 + 2^7 + 2^3 + 2^0: the xor flips these five bits)
Flip(x, bit) == IF (x \div bit) % 2 = 1 THEN x - bit ELSE x + bit

CrcShift(crc) ==
  IF crc >= 32768
  THEN Flip(Flip(Flip(Flip(Flip((crc * 2) % 65536, 1), 8), 128), 256), 4096)
  ELSE crc * 2

RECURSIVE CrcShifts(_, _)
CrcShifts(crc, n) == IF n = 0 THEN crc ELSE CrcShifts(CrcShift(crc), n - 1)

\* crcmod.mkCrcFun(0x11189, initCrc=0, rev=False, xorOut=0) applied to bs
\* from register crc on: byte after byte, the bytes of the first half
\* before those of the second
RECURSIVE CrcFrom(_, _)
CrcFrom(crc, bs) ==
  IF bs = <<>> THEN crc
  ELSE IF Len(bs) = 1
       THEN CrcShifts(Xor(crc \div 256, bs[1]) * 256 + (crc % 256), 8)
  ELSE LET half  == Len(bs) \div 2
           first == CrcFrom(crc, SubSeq(bs, 1, half))
       IN  IF first < 65536 THEN CrcFrom(first, SubSeq(bs, half + 1, Len(bs)))
           ELSE first % 65536

crc_func(bs) == CrcFrom(0, bs)

\* add_crc with the checksum taken up to the end of data, whatever length says
add_crc_to_end(data, offset, length) ==
  LET crc_int == crc_func(SliceFrom(data, offset))
  IN  data \o <<crc_int \div 256, crc_int % 256>>

\* add_crc(data, offset, length): the checksum of data[offset:length], appended
\* as two bytes, high byte first
add_crc(data, offset, length) ==
  LET crc_int == crc_func(Slice(data, offset, length))
  IN  data \o <<crc_int \div 256, crc_int % 256>>

\* the count request of get_pico_config (add_crc with its defaults 1, -1)
CountRequest ==
  add_crc(<<0, 0, 0, 0, 0, 255, 2, 4, 140, 85, 75, 0, 3, 255>>, 1, -1)

\* the per-slot request of get_pico_config
SlotRequest(pos) ==
  add_crc(<<0, 0, 0, 0, 0, 255, 65, 4, 140, 85, 75, 0, 22, 255,
            0, 1, 0, 0, 0, pos, 255,
            1, 3, 0, 0, 0, 0, 255, 0, 0, 0, 0, 255>>, 1, -1)

-----------------------------------------------------------------------------
(* The device's side of the wire: how the Pico lays out the frames that    *)
(* getNextField decodes (the layout of the sample response in              *)
(* get_pico_config and of the request templates).                          *)

\* a field to send: number, type code and value
Field(nr, ty, v) == [nr |-> nr, ty |-> ty, v |-> v]

\* two 16-bit unsigned integers as four bytes, high bytes first
PairBytes(a, b) == <<a \div 256, a % 256, b \div 256, b % 256>>

\* str.encode(): UTF-8, for code points below 65536
RECURSIVE TextBytes(_)
TextBytes(s) ==
  IF s = <<>> THEN <<>>
  ELSE LET cp == Head(s)
       IN  (IF cp < 128 THEN <<cp>>
            ELSE IF cp < 2048 THEN <<192 + (cp \div 64), 128 + (cp % 64)>>
            ELSE <<224 + (cp \div 4096), 128 + ((cp \div 64) % 64), 128 + (cp % 64)>>)
           \o TextBytes(Tail(s))

\* one field on the wire:
\*   0x01  nr 01 a a b b FF
\*   0x03  nr 03 00 00 00 00 FF p p p p FF  (p = 7F FF FF FF for no value)
\*   0x04  nr 04 00 00 00 00 FF text 00 FF
\*   other type codes: laid out as 0x01
EncodeField(f) ==
  CASE f.ty = 3 ->
         <<f.nr, 3, 0, 0, 0, 0, 255>>
         \o (IF f.v.t = "list" THEN PairBytes(f.v.s[1], f.v.s[2]) ELSE Sentinel)
         \o <<255>>
    [] f.ty = 4 ->
         <<f.nr, 4, 0, 0, 0, 0, 255>> \o TextBytes(f.v.s) \o <<0, 255>>
    [] OTHER ->
         <<f.nr, f.ty>> \o PairBytes(f.v.s[1], f.v.s[2]) \o <<255>>

RECURSIVE EncodeFields(_)
EncodeFields(fs) ==
  IF fs = <<>> THEN <<>> ELSE EncodeField(Head(fs)) \o EncodeFields(Tail(fs))

\* the 14-byte header of a frame; its 13th byte counts the bytes of the
\* fields plus 3 (0x03 in the count request, 0x16 in the slot request, 0x11
\* in the sample count response)
Header(cmd, fieldBytes) ==
  <<0, 0, 0, 0, 0, 255, cmd, 4, 140, 85, 75, 0, (Len(fieldBytes) + 3) % 256, 255>>

\* a frame of the device: header, fields and the checksum the sample count
\* response carries (over the bytes 1 .. last-1 of header and fields)
EncodeFrame(cmd, fs) ==
  LET fieldBytes == EncodeFields(fs)
  IN  add_crc(Header(cmd, fieldBytes) \o fieldBytes, 1, -1)

-----------------------------------------------------------------------------
(* String literals of the program, as code points *)

\* "null"
s_null == PyStr(<<110, 117, 108, 108>>)

\* "volt"
s_volt == PyStr(<<118, 111, 108, 116>>)

\* "current"
s_current == PyStr(<<99, 117, 114, 114, 101, 110, 116>>)

\* "thermometer"
s_thermometer == PyStr(<<116, 104, 101, 114, 109, 111, 109, 101, 116, 101, 114>>)

\* "barometer"
s_barometer == PyStr(<<98, 97, 114, 111, 109, 101, 116, 101, 114>>)

\* "ohm"
s_ohm == PyStr(<<111, 104, 109>>)

\* "tank"
s_tank == PyStr(<<116, 97, 110, 107>>)

\* "battery"
s_battery == PyStr(<<98, 97, 116, 116, 101, 114, 121>>)

\* "XX"
s_XX == PyStr(<<88, 88>>)

\* "PICO INTERNAL"
s_PICO_INTERNAL == PyStr(<<80, 73, 67, 79, 32, 73, 78, 84, 69, 82, 78, 65, 76>>)

\* fluid = ["Unknown", "freshWater", "fuel", "wasteWater"]
fluid ==
  <<PyStr(<<85, 110, 107, 110, 111, 119, 110>>),
    PyStr(<<102, 114, 101, 115, 104, 87, 97, 116, 101, 114>>),
    PyStr(<<102, 117, 101, 108>>),
    PyStr(<<119, 97, 115, 116, 101, 87, 97, 116, 101, 114>>)>>

\* fluid_type = ["Unknown", "fresh water", "diesel", "blackwater"]
fluid_type ==
  <<PyStr(<<85, 110, 107, 110, 111, 119, 110>>),
    PyStr(<<102, 114, 101, 115, 104, 32, 119, 97, 116, 101, 114>>),
    PyStr(<<100, 105, 101, 115, 101, 108>>),
    PyStr(<<98, 108, 97, 99, 107, 119, 97, 116, 101, 114>>)>>

-----------------------------------------------------------------------------
(* Sensor registry builder *)

\* an exception raised while evaluating an expression
Raise(err) == [ok |-> FALSE, err |-> err, v |-> PyInt(0)]

Value(v) == [ok |-> TRUE, err |-> "", v |-> v]

\* v[j] for a decoded field value: a component of a pair, or a character of
\* a text (IndexError beyond its end; the sentinel-empty value is "")
Index(v, j) ==
  IF v.t = "list" THEN Value(PyInt(v.s[j + 1]))
  ELSE IF Len(v.s) > j THEN Value(PyStr(<<v.s[j + 1]>>))
  ELSE Raise("IndexError")

\* dict[k][j]: KeyError where the dict has no key k
Item(dict, k, j) ==
  IF k \notin DOMAIN dict THEN Raise("KeyError") ELSE Index(dict[k], j)

\* dict[k][j] used as a number (divided, compared with an int, multiplied by
\* a float): TypeError where it is a character
Number(dict, k, j) ==
  LET it == Item(dict, k, j)
  IN  IF it.ok /\ it.v.t # "int" THEN Raise("TypeError") ELSE it

\* the element count of a config slot: the elementSize createSensorList
\* arrives at for it
elementSize(type, name) ==
  CASE type = PyInt(0) -> 0
    [] type = PyInt(1) -> IF name = s_PICO_INTERNAL THEN 6 ELSE 1
    [] type = PyInt(2) -> 2
    [] type = PyInt(5) -> 2
    [] type = PyInt(9) -> 5
    [] OTHER -> 1

\* the type createSensorList stores: the name of a recognized code, and the
\* code itself otherwise
typeName(type) ==
  CASE type = PyInt(0) -> s_null
    [] type = PyInt(1) -> s_volt
    [] type = PyInt(2) -> s_current
    [] type = PyInt(3) -> s_thermometer
    [] type = PyInt(5) -> s_barometer
    [] type = PyInt(6) -> s_ohm
    [] type = PyInt(8) -> s_tank
    [] type = PyInt(9) -> s_battery
    [] type = PyInt(14) -> s_XX
    [] OTHER -> type

\* the type codes whose branch reads the name from field 3
NamedTypes == {PyInt(1), PyInt(2), PyInt(3), PyInt(5), PyInt(6), PyInt(8), PyInt(9)}

\* config[entry][5][1] * 36 * 12 (a character is repeated, as Python does)
nominalCapacity(v) ==
  IF v.t = "int" THEN PyInt(v.n * 36 * 12) ELSE PyStr([i \in 1..(36 * 12) |-> v.s[1]])

\* the static attributes the branch of a type adds to sensorList[id], in the
\* order the code evaluates them
typeAttributes(e, type) ==
  IF type \notin NamedTypes THEN [ok |-> TRUE, err |-> "", attrs |-> EmptyDict]
  ELSE IF 3 \notin DOMAIN e THEN [ok |-> FALSE, err |-> "KeyError", attrs |-> EmptyDict]
  ELSE
    LET named == [x \in {"name"} |-> e[3]]
    IN  IF type = PyInt(8) THEN
          LET cap == Number(e, 7, 1)
              idx == Number(e, 6, 1)
          IN  IF ~cap.ok THEN [ok |-> FALSE, err |-> cap.err, attrs |-> named]
              ELSE IF ~idx.ok THEN [ok |-> FALSE, err |-> idx.err, attrs |-> named]
              ELSE IF idx.v.n >= Len(fluid_type)
                   THEN [ok |-> FALSE, err |-> "IndexError", attrs |-> named]
              ELSE [ok |-> TRUE, err |-> "",
                    attrs |-> DictUpdate(named,
                                [capacity   |-> PyFloat(cap.v.n, 10),
                                 fluid_type |-> fluid_type[idx.v.n + 1],
                                 fluid      |-> fluid[idx.v.n + 1]])]
        ELSE IF type = PyInt(9) THEN
          LET nom == Item(e, 5, 1)
          IN  IF ~nom.ok THEN [ok |-> FALSE, err |-> nom.err, attrs |-> named]
              ELSE [ok |-> TRUE, err |-> "",
                    attrs |-> DictUpdate(named,
                                [x \in {"capacity.nominal"} |-> nominalCapacity(nom.v)])]
        ELSE [ok |-> TRUE, err |-> "", attrs |-> named]

\* the offset advanced by one for every slot, whatever its element count
nextPos_one(elementPos, size) == elementPos + 1

\* the pos a slot's sensor gets and the offset the next slot starts from
slotPos(elementPos) == elementPos

nextPos(elementPos, size) == elementPos + size

\* one pass of the loop of createSensorList over config[entry]
sensorEntry(list, e) ==
  LET id   == Item(e, 0, 1)
      type == Item(e, 1, 1)
  IN  IF ~id.ok THEN [list EXCEPT !.ok = FALSE, !.err = id.err]
      ELSE IF ~type.ok THEN [list EXCEPT !.ok = FALSE, !.err = type.err]
      ELSE
        LET static == typeAttributes(e, type.v)
            size   == elementSize(type.v, IF 3 \in DOMAIN e THEN e[3] ELSE PyStr(<<>>))
            attrs  == DictUpdate(static.attrs,
                        [type |-> typeName(type.v), pos |-> PyInt(slotPos(list.elementPos))])
            keys   == IF id.v \in DOMAIN list.at THEN list.keys ELSE Append(list.keys, id.v)
        IN  IF ~static.ok THEN [list EXCEPT !.ok = FALSE, !.err = static.err]
            ELSE [ok |-> TRUE, err |-> "", keys |-> keys,
                  at |-> DictSet(list.at, id.v, attrs),
                  elementPos |-> nextPos(list.elementPos, size)]

\* the loop over config.keys(), which are 0 .. len(config)-1 in this order
RECURSIVE sensorEntries(_, _, _)
sensorEntries(list, config, entry) ==
  IF entry \notin DOMAIN config \/ ~list.ok THEN list
  ELSE sensorEntries(sensorEntry(list, config[entry]), config, entry + 1)

\* createSensorList: keys holds the ids in insertion order, at the dict
createSensorList(config) ==
  sensorEntries([ok |-> TRUE, err |-> "", keys |-> <<>>, at |-> EmptyDict,
                 elementPos |-> 0], config, 0)

-----------------------------------------------------------------------------
(* Telemetry interpreter *)

\* toTemperature without the offset of the kelvin scale
toTemperature_celsius(temp) ==
  LET signed == IF temp > 32768 THEN temp - 65536 ELSE temp
  IN  signed * 10

\* toTemperature, in hundredths of a kelvin: the raw value above 32768 is
\* lowered by 65536, then temp/10 + 273.15 is rounded to 2 decimals
toTemperature(temp) ==
  LET signed == IF temp > 32768 THEN temp - 65536 ELSE temp
  IN  signed * 10 + 27315

\* The raw values x = 160k + 80, for which x/16000 lies midway between two
\* hundredths, that "%.2f" % (x / 16000.0) rounds upwards: the division
\* yields the nearest double, which lies above the midpoint for these values
\* and below it for the other midpoints (none is a double itself).
SocTiesUp ==
  {80, 400, 560, 880, 1040, 1360, 1520, 1840, 2160, 2640, 3120, 3600,
   4080, 4240, 4400, 5040, 5200, 5360, 6000, 6160, 6320, 6480, 7120, 7280,
   7440, 8080, 8240, 8400, 8560, 8720, 8880, 10160, 10320, 10480, 10640, 10800,
   10960, 12080, 12240, 12400, 12560, 12720, 12880, 14000, 14160, 14320, 14480, 14640,
   14800, 14960, 18160, 18320, 18480, 18640, 18800, 18960, 19120, 19280, 19440, 19600,
   19760, 19920, 22000, 22160, 22320, 22480, 22640, 22800, 22960, 23120, 23280, 23440,
   23600, 23760, 23920, 26160, 26320, 26480, 26640, 26800, 26960, 27120, 27280, 27440,
   27600, 27760, 27920, 30000, 30160, 30320, 30480, 30640, 30800, 30960, 31120, 31280,
   31440, 31600, 31760, 31920, 32240, 32560, 32880, 33200, 33520, 33840, 34320, 34640,
   34960, 35280, 35600, 35920, 36240, 36560, 36880, 37200, 37520, 37840, 38000, 38320,
   38640, 38960, 39280, 39600, 39920, 40240, 40560, 40880, 41200, 41520, 41840, 42320,
   42640, 42960, 43280, 43600, 43920, 44240, 44560, 44880, 45200, 45520, 45840, 46000,
   46320, 46640, 46960, 47280, 47600, 47920, 48240, 48560, 48880, 49200, 49520, 49840,
   50320, 50640, 50960, 51280, 51600, 51920, 52240, 52560, 52880, 53200, 53520, 53840,
   54000, 54320, 54640, 54960, 55280, 55600, 55920, 56240, 56560, 56880, 57200, 57520,
   57840, 58320, 58640, 58960, 59280, 59600, 59920, 60240, 60560, 60880, 61200, 61520,
   61840, 62000, 62320, 62640, 62960, 63280, 63600, 63920, 64400, 64560, 65040, 65200}

\* float("%.2f" % (raw / 16000.0)), in hundredths
stateOfCharge(raw) ==
  IF raw % 160 = 80
  THEN IF raw \in SocTiesUp THEN raw \div 160 + 1 ELSE raw \div 160
  ELSE (raw + 80) \div 160

\* the sign rule with the threshold value itself taken as a charge
signedCurrent_from25000(raw) == IF raw >= 25000 THEN 65535 - raw ELSE 0 - raw

\* the signed current in hundredths of an ampere: (65535 - raw) / 100 above
\* the threshold, raw / 100 * -1 otherwise
signedCurrent(raw) == IF raw > 25000 THEN 65535 - raw ELSE 0 - raw

\* round(num / den) for den > 0: Python rounds a half to the even neighbour
roundHalfEven(num, den) ==
  LET q == num \div den
      r == num - q * den
  IN  IF 2 * r < den THEN q
      ELSE IF 2 * r > den THEN q + 1
      ELSE IF q % 2 = 0 THEN q ELSE q + 1

\* the divisor (current * stateOfCharge) + 0.001 in units of 1/10000
divisor(current, soc) == current * soc + 10

\* round(nominal / 12 / ((current * stateOfCharge) + 0.001)) for a divisor
\* other than 0: nominal * 10000 / (12 * divisor)
estimate(nominal, current, soc) ==
  LET dv == divisor(current, soc)
  IN  IF dv > 0 THEN roundHalfEven(nominal * 10000, 12 * dv)
      ELSE roundHalfEven(0 - nominal * 10000, 12 * (0 - dv))

\* the clamp of readBatt: a negative estimate becomes one week
clamp(timeRemaining) == IF timeRemaining < 0 THEN 60 * 60 * 24 * 7 ELSE timeRemaining

\* what a read function adds to sensorListTmp[sensorId], or the exception
Reading(upd) == [ok |-> TRUE, err |-> "", upd |-> upd]

Fault(err) == [ok |-> FALSE, err |-> err, upd |-> EmptyDict]

readBaro(element, elementId) ==
  LET x == Number(element, elementId, 1)
  IN  IF ~x.ok THEN Fault(x.err)
      ELSE Reading([pressure |-> PyInt(x.v.n + 65536)])

readTemp(element, elementId) ==
  LET x == Number(element, elementId, 1)
  IN  IF ~x.ok THEN Fault(x.err)
      ELSE Reading([temperature |-> PyFloat(toTemperature(x.v.n), 100)])

readTank(element, elementId) ==
  LET a == Number(element, elementId, 0)
      b == Number(element, elementId, 1)
  IN  IF ~a.ok THEN Fault(a.err)
      ELSE IF ~b.ok THEN Fault(b.err)
      ELSE Reading([currentLevel  |-> PyFloat(a.v.n, 1000),
                    currentVolume |-> PyFloat(b.v.n, 10000)])

\* the element whose second component is the raw current of a battery
battCurrentElement(elementId) == elementId + 1

\* the raw value taken as it is, the state of charge left out
remainingCapacity_raw(raw, soc) == raw * 100

\* element[elementId][1] * stateOfCharge, in hundredths
remainingCapacity(raw, soc) == raw * soc

\* whether readBatt computes capacity.timeRemaining
battTimeKnown(raw) == raw # 65535

readBatt(descriptor, element, elementId) ==
  LET a   == Number(element, elementId, 0)
      b   == Number(element, elementId, 1)
      v   == Number(element, elementId + 2, 1)
      c   == Number(element, battCurrentElement(elementId), 1)
      nom == descriptor["capacity.nominal"]
  IN  IF ~a.ok THEN Fault(a.err)
      ELSE IF ~b.ok THEN Fault(b.err)
      ELSE IF ~v.ok THEN Fault(v.err)
      ELSE IF ~c.ok THEN Fault(c.err)
      ELSE
        LET soc     == stateOfCharge(a.v.n)
            current == signedCurrent(c.v.n)
            upd == [x \in {"stateOfCharge", "capacity.remaining", "voltage", "current"} |->
                      CASE x = "stateOfCharge" -> PyFloat(soc, 100)
                        [] x = "capacity.remaining" ->
                             PyFloat(remainingCapacity(b.v.n, soc), 100)
                        [] x = "voltage" -> PyFloat(v.v.n, 1000)
                        [] OTHER -> PyFloat(current, 100)]
        IN  IF ~battTimeKnown(a.v.n) THEN Reading(upd)
            ELSE IF nom.t # "int" THEN Fault("TypeError")
            ELSE IF divisor(current, soc) = 0 THEN Fault("ZeroDivisionError")
            ELSE Reading(DictUpdate(upd,
                   [x \in {"capacity.timeRemaining"} |->
                      PyInt(clamp(estimate(nom.n, current, soc)))]))

readVolt(element, elementId) ==
  LET x == Number(element, elementId, 1)
  IN  IF ~x.ok THEN Fault(x.err)
      ELSE Reading([voltage |-> PyFloat(x.v.n, 1000)])

readOhm(element, elementId) ==
  LET x == Item(element, elementId, 1)
  IN  IF ~x.ok THEN Fault(x.err)
      ELSE Reading([ohm |-> x.v])

\* the element whose second component readCurrent takes as the raw current
currentElement(elementId) == elementId

readCurrent(element, elementId) ==
  LET x == Number(element, currentElement(elementId), 1)
  IN  IF ~x.ok THEN Fault(x.err)
      ELSE Reading([current |-> PyFloat(signedCurrent(x.v.n), 100)])

\* the dispatch with every sensor read one element behind its pos
readItem_next(descriptor, element) ==
  LET elId     == descriptor["pos"].n + 1
      itemType == descriptor["type"]
  IN  CASE itemType = s_barometer   -> readBaro(element, elId)
        [] itemType = s_thermometer -> readTemp(element, elId)
        [] itemType = s_battery     -> readBatt(descriptor, element, elId)
        [] itemType = s_ohm         -> readOhm(element, elId)
        [] itemType = s_volt        -> readVolt(element, elId)
        [] itemType = s_current     -> readCurrent(element, elId)
        [] itemType = s_tank        -> readTank(element, elId)
        [] OTHER                    -> Reading(EmptyDict)

\* the dispatch of the telemetry loop on the type of a registered sensor
readItem(descriptor, element) ==
  LET elId     == descriptor["pos"].n
      itemType == descriptor["type"]
  IN  CASE itemType = s_barometer   -> readBaro(element, elId)
        [] itemType = s_thermometer -> readTemp(element, elId)
        [] itemType = s_battery     -> readBatt(descriptor, element, elId)
        [] itemType = s_ohm         -> readOhm(element, elId)
        [] itemType = s_volt        -> readVolt(element, elId)
        [] itemType = s_current     -> readCurrent(element, elId)
        [] itemType = s_tank        -> readTank(element, elId)
        [] OTHER                    -> Reading(EmptyDict)

\* for item in sensorList: the items from the i-th on, added to tmp
RECURSIVE readItems(_, _, _, _)
readItems(list, element, tmp, i) ==
  IF i > Len(list.keys) THEN [ok |-> TRUE, err |-> "", tmp |-> tmp]
  ELSE LET item == list.keys[i]
           r    == readItem(list.at[item], element)
       IN  IF ~r.ok THEN [ok |-> FALSE, err |-> r.err, tmp |-> tmp]
           ELSE readItems(list, element,
                          [tmp EXCEPT ![item] = DictUpdate(tmp[item], r.upd)], i + 1)

-----------------------------------------------------------------------------
(* The program *)

VARIABLES
  device,         \* the Pico out there: its count response and its slots
  pc,             \* the statement the program is at
  err,            \* the uncaught exception that ended the process, or ""
  s,              \* the TCP connection of the config phase
  retries,        \* open_tcp: failed attempts so far
  sleeps,         \* open_tcp: the waits of retry_delay so far
  sent,           \* the requests sent over the connection, in order
  inbox,          \* the bytes the device has sent that no recv has returned yet
  req_count,      \* get_pico_config: the number of slots to fetch
  pos,            \* get_pico_config: the slot to fetch next
  config,         \* the config table: pos -> decoded fields
  sensorList,     \* the registry
  sensorListTmp,  \* the snapshot of the cycle under way
  message,        \* the datagram last received
  element,        \* the decoded frame of the cycle
  old_element,    \* the decoded frame of the cycle before
  stdout,         \* the objects printed, in order
  cycles          \* the snapshots printed

vars == <<device, pc, err, s, retries, sleeps, sent, inbox, req_count, pos, config, sensorList,
          sensorListTmp, message, element, old_element, stdout, cycles>>

\* open_tcp(pico_ip, max_retries=5, retry_delay=5)
max_retries == 5

\* the telemetry cycles a behaviour of the model runs through
MaxCycles == 2

\* the fields of a telemetry datagram of the model: 13 fields of 7 bytes
\* after the header make it longer than the 100 bytes the loop asks for
FrameFields == 13

\* sendall that sends the request twice before anything is received
sendall_twice(conn, out, request) ==
  IF conn = "open" THEN [ok |-> TRUE, err |-> "", sent |-> out \o <<request, request>>]
  ELSE [ok |-> FALSE, err |-> "AttributeError", sent |-> out]

\* sendall that does not look at the connection
sendall_unchecked(conn, out, request) ==
  [ok |-> TRUE, err |-> "", sent |-> Append(out, request)]

\* s.sendall(request): AttributeError where open_tcp returned None
sendall(conn, out, request) ==
  IF conn = "open" THEN [ok |-> TRUE, err |-> "", sent |-> Append(out, request)]
  ELSE [ok |-> FALSE, err |-> "AttributeError", sent |-> out]

\* the copy taken in the first cycle only and used again in the later ones
deepcopy_once(list) ==
  IF sensorListTmp = EmptyDict THEN [id \in DOMAIN list.at |-> list.at[id]]
  ELSE sensorListTmp

\* copy.deepcopy(sensorList): the dict of the registry, shared with nothing
deepcopy(list) == [id \in DOMAIN list.at |-> list.at[id]]

\* the test of the telemetry loop on the length of a datagram
accepted(msg) == Len(msg) > 100 /\ Len(msg) < 1200

\* the state of a program just started, talking to device d
Started(d) ==
  /\ device = d
  /\ pc = "connect"
  /\ err = ""
  /\ s = "none"
  /\ retries = 0
  /\ sleeps = 0
  /\ sent = <<>>
  /\ inbox = <<>>
  /\ req_count = 0
  /\ pos = 0
  /\ config = EmptyDict
  /\ sensorList = [keys |-> <<>>, at |-> EmptyDict]
  /\ sensorListTmp = EmptyDict
  /\ message = <<>>
  /\ element = EmptyDict
  /\ old_element = EmptyDict
  /\ stdout = <<>>
  /\ cycles = 0

\* the process dies of an uncaught exception; what was sent and received by
\* then is for the step to say
Crash(e) ==
  /\ err' = e
  /\ UNCHANGED <<device, pc, s, retries, sleeps, req_count, pos, config, sensorList,
                 sensorListTmp, message, element, old_element, stdout, cycles>>

\* open_tcp: socket.create_connection succeeds and the socket is returned
ConnectOk ==
  /\ pc = "connect" /\ err = ""
  /\ retries < max_retries
  /\ s' = "open"
  /\ pc' = "count"
  /\ UNCHANGED <<device, inbox, err, retries, sleeps, sent, req_count, pos, config, sensorList,
                 sensorListTmp, message, element, old_element, stdout, cycles>>

\* a failed attempt that is followed by a wait also when it was the last one
ConnectFail_waits ==
  /\ pc = "connect" /\ err = ""
  /\ retries < max_retries
  /\ retries' = retries + 1
  /\ sleeps' = sleeps + 1
  /\ pc' = IF retries + 1 < max_retries THEN "connect" ELSE "count"
  /\ UNCHANGED <<device, inbox, err, s, sent, req_count, pos, config, sensorList,
                 sensorListTmp, message, element, old_element, stdout, cycles>>

\* open_tcp: the attempt raises socket.error; the loop waits and tries again,
\* or returns None after the last attempt
ConnectFail ==
  /\ pc = "connect" /\ err = ""
  /\ retries < max_retries
  /\ retries' = retries + 1
  /\ sleeps' = IF retries + 1 < max_retries THEN sleeps + 1 ELSE sleeps
  /\ pc' = IF retries + 1 < max_retries THEN "connect" ELSE "count"
  /\ UNCHANGED <<device, inbox, err, s, sent, req_count, pos, config, sensorList,
                 sensorListTmp, message, element, old_element, stdout, cycles>>

\* the bytes a recv may leave in flight: none, the last few bytes, or more
\* than the last field of a response
HeldBack == {0, 4, 12}

\* s.recv(4096) with the bytes arrived on the way and held of them still to
\* come: the bytes returned and the bytes left
recv(arrived, held) ==
  [received |-> SubSeq(arrived, 1, Len(arrived) - held),
   inbox    |-> SubSeq(arrived, Len(arrived) - held + 1, Len(arrived))]

\* what the device sends when the request for slot p reaches it
SlotResponse(d, p) ==
  IF p + 1 > Len(d.slots) THEN <<>> ELSE EncodeFrame(65, d.slots[p + 1])

\* get_pico_config: the count request and req_count = response[19] + 1
Count ==
  /\ pc = "count" /\ err = ""
  /\ LET out == sendall(s, sent, CountRequest)
     IN  /\ sent' = out.sent
         /\ IF ~out.ok
            THEN /\ Crash(out.err)
                 /\ UNCHANGED inbox
            ELSE \E held \in HeldBack :
                   /\ held < Len(inbox \o device.count)
                   /\ LET got == recv(inbox \o device.count, held)
                      IN  /\ inbox' = got.inbox
                          /\ IF Len(got.received) < 20 THEN Crash("IndexError")
                             ELSE /\ req_count' = got.received[20] + 1
                                  /\ pos' = 0
                                  /\ pc' = "slot"
                                  /\ UNCHANGED <<device, err, s, retries, sleeps, config,
                                                 sensorList, sensorListTmp, message,
                                                 element, old_element, stdout, cycles>>

\* get_pico_config: one pass of the loop over range(req_count); after the
\* last one the connection is closed and config returned.  A device that
\* does not answer lets recv run into the timeout of the socket.
Slot ==
  /\ pc = "slot" /\ err = ""
  /\ pos < req_count
  /\ LET out     == sendall(s, sent, SlotRequest(pos))
         arrived == inbox \o SlotResponse(device, pos)
     IN  /\ sent' = out.sent
         /\ IF ~out.ok
            THEN /\ Crash(out.err)
                 /\ UNCHANGED inbox
            ELSE IF arrived = <<>>
            THEN /\ Crash("TimeoutError")
                 /\ UNCHANGED inbox
            ELSE \E held \in HeldBack :
                   /\ held < Len(arrived)
                   /\ LET got    == recv(arrived, held)
                          parsed == parseResponse(got.received)
                      IN  /\ inbox' = got.inbox
                          /\ IF ~parsed.ok THEN Crash(parsed.err)
                             ELSE /\ config' = DictSet(config, pos, parsed.dict)
                                  /\ pos' = pos + 1
                                  /\ s' = IF pos + 1 < req_count THEN s ELSE "closed"
                                  /\ pc' = IF pos + 1 < req_count THEN "slot" ELSE "build"
                                  /\ UNCHANGED <<device, err, retries, sleeps, req_count,
                                                 sensorList, sensorListTmp, message,
                                                 element, old_element, stdout, cycles>>

\* sensorList = createSensorList(config); print(json.dumps(sensorList))
Build ==
  /\ pc = "build" /\ err = ""
  /\ LET list == createSensorList(config)
     IN  IF ~list.ok
         THEN /\ Crash(list.err)
              /\ UNCHANGED <<sent, inbox>>
         ELSE /\ sensorList' = [keys |-> list.keys, at |-> list.at]
              /\ stdout' = Append(stdout, list.at)
              /\ pc' = "loop"
              /\ UNCHANGED <<device, inbox, err, s, retries, sleeps, sent, req_count, pos, config,
                             sensorListTmp, message, element, old_element, cycles>>

\* the top of the telemetry loop: sensorListTmp = copy.deepcopy(sensorList)
LoopTop ==
  /\ pc = "loop" /\ err = ""
  /\ cycles < MaxCycles
  /\ sensorListTmp' = deepcopy(sensorList)
  /\ message' = <<>>
  /\ pc' = "recv"
  /\ UNCHANGED <<device, inbox, err, s, retries, sleeps, sent, req_count, pos, config, sensorList,
                 element, old_element, stdout, cycles>>

\* the inner loop: a datagram arrives; one of a length outside 101..1199 is
\* dropped and the next one awaited
Receive(datagram) ==
  /\ pc = "recv" /\ err = ""
  /\ message' = datagram
  /\ pc' = IF accepted(datagram) THEN "process" ELSE "recv"
  /\ UNCHANGED <<device, inbox, err, s, retries, sleeps, sent, req_count, pos, config, sensorList,
                 sensorListTmp, element, old_element, stdout, cycles>>

\* the rest of the cycle: the frame is decoded, every registered sensor is
\* read into sensorListTmp, and sensorListTmp is printed
Process ==
  /\ pc = "process" /\ err = ""
  /\ LET parsed == parseResponse(message)
     IN  IF ~parsed.ok
         THEN /\ Crash(parsed.err)
              /\ UNCHANGED <<sent, inbox>>
         ELSE LET read == readItems(sensorList, parsed.dict, sensorListTmp, 1)
              IN  /\ element' = parsed.dict
                  /\ old_element' = parsed.dict
                  /\ sensorListTmp' = read.tmp
                  /\ err' = read.err
                  /\ stdout' = IF read.ok THEN Append(stdout, read.tmp) ELSE stdout
                  /\ cycles' = IF read.ok THEN cycles + 1 ELSE cycles
                  /\ pc' = IF read.ok THEN "loop" ELSE pc
                  /\ UNCHANGED <<device, inbox, s, retries, sleeps, sent, req_count, pos, config,
                                 sensorList, message>>

-----------------------------------------------------------------------------
(* The devices and datagrams of the model *)

\* "Engine Room"
EngineRoom == <<69, 110, 103, 105, 110, 101, 32, 82, 111, 111, 109>>

\* "House"
House == <<72, 111, 117, 115, 101>>

\* the fields of a slot's descriptor: id in field 0, type in field 1, the
\* name in field 3, then the fields of the type
Descriptor(id, type, name, more) ==
  <<Field(0, 1, PyList(0, id)), Field(1, 1, PyList(0, type)), Field(3, 4, PyStr(name))>>
  \o more

\* the count response of a device with n slots (the sample response of
\* get_pico_config has this layout)
CountResponse(n) == EncodeFrame(2, <<Field(1, 1, PyList(0, n - 1)), Field(2, 1, PyList(0, 48))>>)

\* a device with the given slots
Pico(slots) == [count |-> CountResponse(Len(slots)), slots |-> slots]

\* a battery with field 5 = f5
Battery(id, name, f5) == Descriptor(id, 9, name, <<Field(5, 1, PyList(0, f5))>>)

\* a tank with fluid index f6 and field 7 = f7
Tank(id, name, f6, f7) ==
  Descriptor(id, 8, name, <<Field(6, 1, PyList(0, f6)), Field(7, 1, PyList(0, f7))>>)

\* one thermometer, id 5: readings at element 0
ThermometerPico == Pico(<<Descriptor(5, 3, EngineRoom, <<>>)>>)

\* battery (elements 0..4), current (5, 6), thermometer (7)
BoatPico ==
  Pico(<<Battery(1, House, 100), Descriptor(2, 2, House, <<>>),
         Descriptor(3, 3, EngineRoom, <<>>)>>)

\* volt "PICO INTERNAL" (0..5), tank (6), barometer (7, 8), ohm (9), null,
\* reserved (10), a type code the program does not know (11)
MixedPico ==
  Pico(<<Descriptor(1, 1, s_PICO_INTERNAL.s, <<>>), Tank(2, House, 2, 1200),
         Descriptor(3, 5, House, <<>>), Descriptor(4, 6, House, <<>>),
         Descriptor(6, 0, <<>>, <<>>), Descriptor(7, 14, <<>>, <<>>),
         Descriptor(8, 4, House, <<>>)>>)

\* a device whose count response stops after the header
MutePico == [count |-> EncodeFrame(2, <<>>), slots |-> <<>>]

\* a device whose descriptor carries a field of type code 9
OddPico == Pico(<<<<Field(0, 1, PyList(0, 5)), Field(1, 9, PyList(0, 3))>>>>)

\* a volt sensor whose descriptor ends in a field of type 0x03
SparePico == Pico(<<Descriptor(1, 1, House, <<Field(4, 3, PyList(1, 2))>>)>>)

Devices == {ThermometerPico, BoatPico, MixedPico, MutePico, OddPico, SparePico}

\* the values of a telemetry frame of the model where nothing else is said
BaseValue(nr) ==
  CASE nr = 0 -> PyList(8000, 100)
    [] nr = 1 -> PyList(0, 1000)
    [] nr = 2 -> PyList(0, 12500)
    [] nr = 5 -> PyList(0, 30000)
    [] nr = 6 -> PyList(500, 25000)
    [] nr = 7 -> PyList(0, 50)
    [] nr = 9 -> PyList(0, 47)
    [] OTHER -> PyList(0, 0)

\* the fields 0 .. FrameFields-1 of a telemetry frame, with those of over
\* in place of the fields of the same position
TelemetryFields(over) ==
  [i \in 1..FrameFields |->
     IF (i - 1) \in DOMAIN over THEN over[i - 1] ELSE Field(i - 1, 1, BaseValue(i - 1))]

\* a telemetry datagram
Telemetry(over) == EncodeFrame(176, TelemetryFields(over))

\* field nr of type 0x01 with the pair (a, b)
Plain(nr, a, b) == Field(nr, 1, PyList(a, b))

NoOverride == [nr \in {} |-> Plain(0, 0, 0)]

\* the same layout, other values; no state of charge (65535)
OtherValues ==
  [nr \in {0, 1, 5, 7} |->
     CASE nr = 0 -> Plain(0, 65535, 50)
       [] nr = 1 -> Plain(1, 0, 30000)
       [] nr = 5 -> Plain(5, 0, 1000)
       [] OTHER  -> Plain(7, 0, 65535)]

\* field 3 carries the type code 7
UnknownType == [nr \in {3} |-> Field(3, 7, PyList(0, 0))]

\* field 7 carries no value (0x03, 7F FF FF FF)
EmptyField == [nr \in {7} |-> Field(7, 3, PyStr(<<>>))]

\* the frame has no field 7 (its eighth field is numbered 77)
AbsentField == [nr \in {7} |-> Plain(77, 0, 50)]

\* raw state of charge 160 and raw current 10
TinyLoad == [nr \in {0, 1} |-> IF nr = 0 THEN Plain(0, 160, 100) ELSE Plain(1, 0, 10)]

\* a datagram too short for the loop
ShortDatagram == EncodeFrame(176, <<Plain(0, 0, 50), Plain(1, 0, 0)>>)

Datagrams ==
  {Telemetry(NoOverride), Telemetry(OtherValues), Telemetry(UnknownType),
   Telemetry(EmptyField), Telemetry(AbsentField), Telemetry(TinyLoad), ShortDatagram}

-----------------------------------------------------------------------------
(* The program against the devices of the model *)

Init == \E d \in Devices : Started(d)

Next ==
  \/ ConnectOk
  \/ ConnectFail
  \/ Count
  \/ Slot
  \/ Build
  \/ LoopTop
  \/ \E datagram \in Datagrams : Receive(datagram)
  \/ Process

Spec == Init /\ [][Next]_vars

-----------------------------------------------------------------------------
(* Properties of the program *)

Last(seq) == seq[Len(seq)]

\* a snapshot has just been printed: element is the frame it was read from
Emitted == pc = "loop" /\ err = "" /\ cycles > 0

\* the program is in the telemetry loop
InLoop == pc \in {"loop", "recv", "process"}

\* the decoder meets a type code other than 0x01, 0x03, 0x04 in the frame
UnknownFieldType(msg) == ~parseResponse(msg).ok /\ parseResponse(msg).err = "TypeError"

\* the frame decodes, and the element at the offset of a registered sensor
\* is the sentinel-empty value or is not in the frame
EmptyOrAbsent(list, msg) ==
  /\ parseResponse(msg).ok
  /\ \E id \in DOMAIN list.at :
       LET p == list.at[id]["pos"].n
           e == parseResponse(msg).dict
       IN  p \notin DOMAIN e \/ e[p] = PyStr(<<>>)

(* C1: in the telemetry loop, an accepted frame with a field of a type     *)
(* code other than 0x01, 0x03, 0x04 does not end the loop: the cycle is    *)
(* skipped, nothing is printed for it, what was printed stays as it is,    *)
(* and the loop goes on to its next cycle.                                 *)
C1_UnknownFieldTypeSkipsCycle ==
  [][(pc = "process" /\ err = "" /\ UnknownFieldType(message))
       => (err' = "" /\ pc' = "loop" /\ stdout' = stdout)]_vars

(* C2: a failure while interpreting one frame stays in its cycle: with a   *)
(* registered sensor's field sentinel-empty or absent from the frame, the  *)
(* loop continues and the snapshots printed before stay as they are.       *)
C2_ReadFailureContained ==
  [][(pc = "process" /\ err = "" /\ EmptyOrAbsent(sensorList, message))
       => (err' = "" /\ pc' = "loop"
           /\ SubSeq(stdout', 1, Len(stdout)) = stdout)]_vars

\* every attempt of open_tcp has failed and it has returned None
Exhausted == pc = "count" /\ s = "none" /\ retries = max_retries

(* C3: when every connection attempt fails, the config phase ends in a     *)
(* fatal failure: no request is ever sent, no config table and no registry *)
(* are produced, nothing is printed, and the program never gets past the   *)
(* count request, where the process dies.                                  *)
C3_ConnectionFailureIsFatal ==
  /\ [](retries = max_retries =>
          /\ Exhausted
          /\ sent = <<>> /\ config = EmptyDict /\ sensorList.keys = <<>> /\ stdout = <<>>
          /\ err \in {"", "AttributeError"})
  /\ [][Exhausted /\ err = "" => err' = "AttributeError"]_vars

C3_Witness == Exhausted /\ err = "AttributeError" /\ sent = <<>>

\* the config table has one slot: a thermometer, id 5, named "Engine Room"
ThermometerConfig ==
  /\ DOMAIN config = {0}
  /\ DOMAIN config[0] = {0, 1, 3}
  /\ config[0][0].t = "list" /\ config[0][0].s[2] = 5
  /\ config[0][1].t = "list" /\ config[0][1].s[2] = 3
  /\ config[0][3] = PyStr(EngineRoom)

\* the frame of the cycle has 50 as the second component of field 0
FieldZeroIs50 == 0 \in DOMAIN element /\ element[0].t = "list" /\ element[0].s[2] = 50

(* C4 as claimed: for the one-thermometer config and a frame whose field 0 *)
(* has second component 50, the snapshot printed is exactly                *)
(* {5: {"temperature": 278.15}}.                                           *)
C4_SnapshotOnlyComputedValues ==
  (Emitted /\ ThermometerConfig /\ FieldZeroIs50)
    => Last(stdout) = (PyInt(5) :> [temperature |-> PyFloat(27815, 100)])

(* C4 amended: for the one-thermometer config and a frame whose field 0    *)
(* has second component 50, the snapshot printed is {5: {"name": "Engine   *)
(* Room", "type": "thermometer", "pos": 0, "temperature": 278.15}}: one    *)
(* entry per sensor id, holding the sensor's registry entry and its        *)
(* computed values.                                                        *)
C4_SnapshotWithRegistryEntry ==
  (Emitted /\ ThermometerConfig /\ FieldZeroIs50)
    => Last(stdout) = (PyInt(5) :> [name |-> PyStr(EngineRoom), type |-> s_thermometer,
                                    pos |-> PyInt(0),
                                    temperature |-> PyFloat(27815, 100)])

C4_Witness == Emitted /\ ThermometerConfig /\ FieldZeroIs50

\* the snapshot of a cycle as a function of the registry and the frame
SnapshotOf(list, frame) ==
  [id \in DOMAIN list.at |-> DictUpdate(list.at[id], readItem(list.at[id], frame).upd)]

(* C6: after the config phase the registry is read-only: in the telemetry  *)
(* loop it is what createSensorList returned (and what was printed first), *)
(* and the snapshot printed in a cycle is a function of the registry and   *)
(* the frame of that cycle alone, with nothing of an earlier frame in it.  *)
C6_RegistryReadOnly ==
  InLoop =>
    /\ sensorList.at = createSensorList(config).at
    /\ sensorList.keys = createSensorList(config).keys
    /\ sensorList.at = stdout[1]
    /\ Emitted => Last(stdout) = SnapshotOf(sensorList, element)

\* two cycles have printed different snapshots, one after the other
C6_Witness ==
  Emitted /\ cycles >= 2 /\ Last(stdout) # stdout[Len(stdout) - 1]

-----------------------------------------------------------------------------
(* The program at a later statement, as the config exchange with device d  *)
(* leaves it (first connection attempt successful)                         *)

\* the config table get_pico_config returns for device d
ConfigOf(d) ==
  [p \in 0..(Len(d.slots) - 1) |-> parseResponse(EncodeFrame(65, d.slots[p + 1])).dict]

\* the requests sent by then
SentTo(d) == <<CountRequest>> \o [p \in 1..Len(d.slots) |-> SlotRequest(p - 1)]

\* at the per-slot request for slot 0
AtSlot(d) ==
  /\ device = d
  /\ pc = "slot"
  /\ err = ""
  /\ s = "open"
  /\ retries = 0
  /\ sleeps = 0
  /\ sent = <<CountRequest>>
  /\ inbox = <<>>
  /\ req_count = d.count[20] + 1
  /\ pos = 0
  /\ config = EmptyDict
  /\ sensorList = [keys |-> <<>>, at |-> EmptyDict]
  /\ sensorListTmp = EmptyDict
  /\ message = <<>>
  /\ element = EmptyDict
  /\ old_element = EmptyDict
  /\ stdout = <<>>
  /\ cycles = 0

\* at the call of createSensorList, with the config table cfg
AtBuild(d, cfg, requests) ==
  /\ device = d
  /\ pc = "build"
  /\ err = ""
  /\ s = "closed"
  /\ retries = 0
  /\ sleeps = 0
  /\ sent = requests
  /\ inbox = <<>>
  /\ req_count = Len(device.slots)
  /\ pos = Len(device.slots)
  /\ config = cfg
  /\ sensorList = [keys |-> <<>>, at |-> EmptyDict]
  /\ sensorListTmp = EmptyDict
  /\ message = <<>>
  /\ element = EmptyDict
  /\ old_element = EmptyDict
  /\ stdout = <<>>
  /\ cycles = 0

\* in the first telemetry cycle, the datagram msg just accepted
AtProcess(d, cfg, requests, msg) ==
  LET list == createSensorList(cfg)
  IN  /\ device = d
      /\ pc = "process"
      /\ err = ""
      /\ s = "closed"
      /\ retries = 0
      /\ sleeps = 0
      /\ sent = requests
      /\ inbox = <<>>
      /\ req_count = Len(device.slots)
      /\ pos = Len(device.slots)
      /\ config = cfg
      /\ sensorList = [keys |-> list.keys, at |-> list.at]
      /\ sensorListTmp = deepcopy(list)
      /\ message = msg
      /\ element = EmptyDict
      /\ old_element = EmptyDict
      /\ stdout = <<list.at>>
      /\ cycles = 0

-----------------------------------------------------------------------------
(* createSensorList over the configs of up to MaxSlots slots *)

\* the slots of a config of the model
MaxSlots == 3

\* the descriptors a slot may hold: sensors of 1, 2, 5 and 6 elements, the
\* volt sensor under both of its names, and a type code the program does
\* not know
SlotKinds ==
  <<[type |-> 0, name |-> <<>>,              more |-> <<>>],
    [type |-> 1, name |-> House,             more |-> <<>>],
    [type |-> 1, name |-> s_PICO_INTERNAL.s, more |-> <<>>],
    [type |-> 2, name |-> House,             more |-> <<>>],
    [type |-> 3, name |-> EngineRoom,        more |-> <<>>],
    [type |-> 9, name |-> House,             more |-> <<Field(5, 1, PyList(0, 100))>>],
    [type |-> 4, name |-> House,             more |-> <<>>]>>

KindSlot(k, id) == Descriptor(id, SlotKinds[k].type, SlotKinds[k].name, SlotKinds[k].more)

\* n slots of the kinds given; slot same shares the id of slot 1 (same = 1:
\* no slot does), the others have ids of their own
InitRegistry ==
  \E n \in 1..MaxSlots :
    \E kinds \in [1..n -> 1..Len(SlotKinds)] :
      \E same \in 1..n :
        LET id(i) == IF i = same THEN 1 ELSE i
            slot(i) == KindSlot(kinds[i], id(i))
        IN  AtBuild([count |-> CountResponse(n), slots |-> [i \in 1..n |-> slot(i)]],
                    [p \in 0..(n - 1) |-> parseResponse(EncodeFrame(65, slot(p + 1))).dict],
                    <<CountRequest>> \o [p \in 1..n |-> SlotRequest(p - 1)])

NextRegistry == Build

SpecRegistry == InitRegistry /\ [][NextRegistry]_vars

\* createSensorList has returned
Built == pc = "loop" /\ err = ""

SlotId(p) == PyInt(config[p][0].s[2])

\* the element count of slot p
SlotCount(p) == elementSize(PyInt(config[p][1].s[2]), config[p][3])

\* the sum of the element counts of the slots before slot p
RECURSIVE CountsBefore(_)
CountsBefore(p) == IF p = 0 THEN 0 ELSE CountsBefore(p - 1) + SlotCount(p - 1)

\* the type codes of the glossary
RecognizedTypes == {0, 1, 2, 3, 5, 6, 8, 9, 14}

AllRecognized == \A p \in DOMAIN config : config[p][1].s[2] \in RecognizedTypes

DistinctIds == \A p, q \in DOMAIN config : p # q => SlotId(p) # SlotId(q)

\* the offsets a registered sensor occupies: from its pos on, as many as the
\* element count of the (last) slot with its id
SensorRange(id) ==
  LET p == CHOOSE p \in DOMAIN config :
             SlotId(p) = id /\ \A q \in DOMAIN config : SlotId(q) = id => q <= p
      from == sensorList.at[id]["pos"].n
  IN  from .. (from + SlotCount(p) - 1)

\* pos is the sum of the counts before; the ranges tile 0 .. total-1
OffsetsTile ==
  LET total == CountsBefore(Cardinality(DOMAIN config))
  IN  /\ \A p \in DOMAIN config :
           sensorList.at[SlotId(p)]["pos"] = PyInt(CountsBefore(p))
      /\ \A x \in 0..(total - 1) :
           Cardinality({id \in DOMAIN sensorList.at : x \in SensorRange(id)}) = 1
      /\ \A id \in DOMAIN sensorList.at : \A x \in SensorRange(id) : x < total

(* C5 as claimed: for every config whose slots all have recognized type    *)
(* codes, every slot's sensor has pos = the sum of the element counts of   *)
(* the slots before it, the ranges [pos, pos+count) of the registered      *)
(* sensors have no gaps and no overlaps, and the sum of all element counts *)
(* is the maximum of pos+count.                                            *)
C5_OffsetsTile == (Built /\ AllRecognized) => OffsetsTile

(* C5 amended: the same, for every config whose slots all have recognized  *)
(* type codes and pairwise distinct sensor ids.                            *)
C5_OffsetsTileDistinctIds == (Built /\ AllRecognized /\ DistinctIds) => OffsetsTile

\* three slots with ids of their own, the last one behind a sensor of
\* several elements
C5_Witness ==
  /\ Built /\ AllRecognized /\ DistinctIds
  /\ Cardinality(DOMAIN config) >= 3
  /\ \E id \in DOMAIN sensorList.at : sensorList.at[id]["pos"].n >= 7

-----------------------------------------------------------------------------
(* The decoder against the device's encoding: one slot response of up to   *)
(* MaxFields fields, decoded by the per-slot step of get_pico_config       *)

\* the fields of a response of the model
MaxFields == 2

\* the values a field may carry: number pairs with four different bytes, the
\* pair whose bytes are 7F FF FF FF, and texts: empty, ASCII, two- and
\* three-byte characters
FieldValues ==
  [ty : {1, 3}, v : {PyList(258, 772), PyList(65535, 32767), PyList(32767, 65535)}]
    \cup [ty : {3}, v : {PyStr(<<>>)}]
    \cup [ty : {4}, v : {PyStr(<<>>), PyStr(<<72, 105>>), PyStr(<<233, 8364>>)}]

FieldChoices == {Field(nr, f.ty, f.v) : nr \in {0, 7}, f \in FieldValues}

InitCodec ==
  \E n \in 0..MaxFields :
    \E fs \in [1..n -> FieldChoices] :
      AtSlot([count |-> CountResponse(1), slots |-> <<fs>>])

NextCodec == Slot

SpecCodec == InitCodec /\ [][NextCodec]_vars

\* the fields the device encoded
Encoded == device.slots[1]

\* the per-slot step has run on the response, received in one piece
Decoded == (pos = 1 \/ err # "") /\ inbox = <<>>

DistinctNumbers == \A i, j \in 1..Len(Encoded) : i # j => Encoded[i].nr # Encoded[j].nr

\* the field list as a mapping from field number to value
Mapping ==
  [nr \in {Encoded[i].nr : i \in 1..Len(Encoded)} |->
     Encoded[CHOOSE i \in 1..Len(Encoded) : Encoded[i].nr = nr].v]

\* a 0x03 field carrying the pair that is laid out as 7F FF FF FF
SentinelPair(f) == f.ty = 3 /\ f.v = PyList(32767, 65535)

(* C7 as claimed: encoding a list of fields with distinct field numbers    *)
(* (0x01 and 0x03 each carrying a pair of 16-bit words, 0x03 optionally    *)
(* the sentinel, 0x04 carrying text) into a response and decoding it       *)
(* yields exactly the original mapping from field number to value.         *)
C7_RoundTrip ==
  (Decoded /\ DistinctNumbers) => (err = "" /\ config[0] = Mapping)

(* C7 amended: the same, for field lists in which no 0x03 field carries    *)
(* the pair (32767, 65535), whose bytes are those of the sentinel.         *)
C7_RoundTripNoSentinelPair ==
  (Decoded /\ DistinctNumbers /\ \A i \in 1..Len(Encoded) : ~SentinelPair(Encoded[i]))
    => (err = "" /\ config[0] = Mapping)

\* two fields decoded: a 0x03 sentinel and a text of multi-byte characters
C7_Witness ==
  /\ Decoded /\ DistinctNumbers /\ Len(Encoded) = 2
  /\ \E i, j \in 1..2 :
       /\ Encoded[i].ty = 3 /\ Encoded[i].v = PyStr(<<>>)
       /\ Encoded[j].ty = 4 /\ Encoded[j].v = PyStr(<<233, 8364>>)
  /\ err = "" /\ config[0] = Mapping

-----------------------------------------------------------------------------
(* The read functions over the frames of a battery (elements 0 .. 4) and a *)
(* current sensor (elements 5, 6)                                          *)

\* field 5 of the battery's descriptor
NominalRaw == {0, 1, 100}

ReaderPico(f5) == Pico(<<Battery(1, House, f5), Descriptor(2, 2, House, <<>>)>>)

\* first component of the battery's first element: state of charge 0, on
\* both sides of a rounding tie, 0.5, 1.0, the largest, and 65535 (unknown)
SocRaw == {0, 80, 160, 240, 8000, 16000, 65534, 65535}

\* second component of the battery's first element
CapacityRaw == {0, 100, 43200}

\* second component of a current element: none, small loads, the threshold
\* 25000 and its neighbour, charging
CurrentRaw == {0, 1, 10, 1000, 25000, 25001, 30000, 65535}

BatteryFrames ==
  {[nr \in {0, 1} |-> IF nr = 0 THEN Plain(0, a, b) ELSE Plain(1, 0, c)] :
     a \in SocRaw, b \in CapacityRaw, c \in CurrentRaw}

\* the two elements of the current sensor with different values
CurrentFrames ==
  {[nr \in {5, 6} |-> IF nr = 5 THEN Plain(5, 0, c) ELSE Plain(6, 0, d)] :
     c \in {1000, 25000, 25001, 30000}, d \in {1000, 30000}}

InitReaders ==
  \E f5 \in NominalRaw :
    \E over \in BatteryFrames \cup CurrentFrames :
      AtProcess(ReaderPico(f5), ConfigOf(ReaderPico(f5)), SentTo(ReaderPico(f5)),
                Telemetry(over))

NextReaders == Process

SpecReaders == InitReaders /\ [][NextReaders]_vars

\* the registered sensors of a type
SensorsOf(type) == {id \in DOMAIN sensorList.at : sensorList.at[id]["type"] = type}

\* the frame offset of a registered sensor
PosOf(id) == sensorList.at[id]["pos"].n

\* the sign rule of the current: hundredths of an ampere
SignRule(raw) == IF raw > 25000 THEN 65535 - raw ELSE 0 - raw

\* the current reading of every current sensor follows the sign rule from
\* the second component of the element shift places behind the sensor's pos
CurrentReadFrom(shift) ==
  \A id \in SensorsOf(s_current) :
    LET raw == element[PosOf(id) + shift].s[2]
        out == Last(stdout)[id]["current"]
    IN  /\ out = PyFloat(SignRule(raw), 100)
        /\ raw = 30000 => out = PyFloat(35535, 100)
        /\ raw = 1000 => out = PyFloat(-1000, 100)

(* C8 as claimed: for a current sensor registered at offset p, the current *)
(* reading is computed from the second component of frame element p+1,     *)
(* with the sign rule (65535 - raw)/100 when raw > 25000, otherwise        *)
(* -raw/100 (raw 30000 gives 355.35, raw 1000 gives -10.0).                *)
C8_CurrentFromSecondElement == Emitted => CurrentReadFrom(1)

(* C8 amended: the raw value is the second component of frame element p,   *)
(* the first of the sensor's two elements; the sign rule is as claimed.    *)
C8_CurrentFromFirstElement == Emitted => CurrentReadFrom(0)

\* a snapshot of a frame whose elements p and p+1 differ, p at the threshold
C8_Witness ==
  /\ Emitted
  /\ \E id \in SensorsOf(s_current) :
       /\ element[PosOf(id)].s[2] = 25000
       /\ element[PosOf(id) + 1].s[2] = 30000
       /\ Last(stdout)[id]["current"] = PyFloat(-25000, 100)

\* the emitted capacity.remaining of every battery is the emitted
\* stateOfCharge times amount(id)
RemainingIs(amount(_)) ==
  \A id \in SensorsOf(s_battery) :
    LET out == Last(stdout)[id]
    IN  out["capacity.remaining"] = PyFloat(amount(id) * out["stateOfCharge"].n, 100)

NominalOf(id) == sensorList.at[id]["capacity.nominal"].n

FrameCapacityOf(id) == element[PosOf(id)].s[2]

(* C9 as claimed: for a battery sensor, the emitted capacity.remaining     *)
(* equals the nominal capacity of the registry (descriptor field 5 x 36 x  *)
(* 12) multiplied by the stateOfCharge computed from the frame.            *)
C9_RemainingFromNominal == Emitted => RemainingIs(NominalOf)

(* C9 amended: the emitted capacity.remaining equals the second component  *)
(* of the sensor's first frame element multiplied by the stateOfCharge     *)
(* computed from the frame; the nominal capacity takes no part in it.      *)
C9_RemainingFromFrame == Emitted => RemainingIs(FrameCapacityOf)

\* a battery half charged whose frame value differs from the nominal capacity
C9_Witness ==
  /\ Emitted
  /\ \E id \in SensorsOf(s_battery) :
       /\ NominalOf(id) = 43200
       /\ FrameCapacityOf(id) = 100
       /\ Last(stdout)[id]["stateOfCharge"] = PyFloat(50, 100)
       /\ Last(stdout)[id]["capacity.remaining"] = PyFloat(5000, 100)

\* the accepted frame decodes and holds a pair at each of the five elements
\* of every battery
BatteryFrame ==
  LET parsed == parseResponse(message)
  IN  /\ parsed.ok
      /\ \A id \in SensorsOf(s_battery) : \A k \in 0..4 :
           /\ (PosOf(id) + k) \in DOMAIN parsed.dict
           /\ parsed.dict[PosOf(id) + k].t = "list"

\* timeRemaining in the snapshot out of a battery whose first element has
\* the first component first
TimeRemainingRule(id, first, out) ==
  /\ (first = 65535) <=> ("capacity.timeRemaining" \notin DOMAIN out)
  /\ first # 65535 =>
       /\ out["capacity.timeRemaining"].n >= 0
       /\ estimate(NominalOf(id), out["current"].n, out["stateOfCharge"].n) < 0
            => out["capacity.timeRemaining"] = PyInt(604800)

(* C10: for a battery sensor, capacity.timeRemaining is omitted from the   *)
(* reading exactly when the first component of the sensor's first element  *)
(* is 65535; in every other case it is emitted, is never negative, and is  *)
(* 604800 whenever the unclamped estimate is negative.                     *)
C10_TimeRemaining ==
  [][(pc = "process" /\ err = "" /\ BatteryFrame) =>
       /\ Emitted'
       /\ \A id \in SensorsOf(s_battery) :
            TimeRemainingRule(id, parseResponse(message).dict[PosOf(id)].s[1],
                              Last(stdout')[id])]_vars

-----------------------------------------------------------------------------
(* toTemperature over the raw values of a thermometer's element *)

\* the raw values: every 1024th, with the neighbours of 0, of the sign bit
\* 32768 and of 65535, and the 50 of the example
RawTemperatures ==
  {k * 1024 : k \in 0..63} \cup {1, 50, 32767, 32769, 65534, 65535}

InitThermometer ==
  \E raw \in RawTemperatures :
    AtProcess(ThermometerPico, ConfigOf(ThermometerPico), SentTo(ThermometerPico),
              Telemetry([nr \in {0} |-> Plain(0, 0, raw)]))

NextThermometer == Process

SpecThermometer == InitThermometer /\ [][NextThermometer]_vars

\* the two's-complement signed 16-bit value of raw
Signed16(raw) == IF raw >= 32768 THEN raw - 65536 ELSE raw

(* C11: for every raw value the temperature of a thermometer is s/10 +     *)
(* 273.15 to two decimals, s the two's-complement signed 16-bit value of   *)
(* raw: raw 0 gives 273.15, raw 65535 gives 273.05, and every raw with the *)
(* top bit set gives a value below 273.15.                                 *)
C11_SignedTemperature ==
  Emitted =>
    \A id \in SensorsOf(s_thermometer) :
      LET raw == element[PosOf(id)].s[2]
          out == Last(stdout)[id]["temperature"]
      IN  /\ out = PyFloat(Signed16(raw) * 10 + 27315, 100)
          /\ raw = 0 => out = PyFloat(27315, 100)
          /\ raw = 65535 => out = PyFloat(27305, 100)
          /\ raw >= 32768 => out.n < 27315

-----------------------------------------------------------------------------
(* Responses that arrive short *)

(* C12: a response shorter than the expected layout fails that single      *)
(* decode and does not end the process: a count response of fewer than 20  *)
(* bytes yields no slot count, and a slot response whose last field is     *)
(* truncated yields no decoded value for that field (the fields stored are *)
(* fields of the whole response, with their values).                       *)
C12_MalformedFrameContained ==
  [][(err = "" /\ s = "open" /\ inbox = <<>>) =>
       LET whole == parseResponse(SlotResponse(device, pos))
       IN  /\ (pc = "count" /\ Len(device.count) - Len(inbox') < 20)
                => (err' = "" /\ req_count' = req_count)
           /\ (pc = "slot" /\ inbox' # <<>> /\ whole.ok)
                => /\ err' = ""
                   /\ pos \in DOMAIN config' =>
                        \A nr \in DOMAIN config'[pos] :
                          nr \in DOMAIN whole.dict /\ config'[pos][nr] = whole.dict[nr]]_vars

-----------------------------------------------------------------------------
(* The order of the config exchange *)

\* the requests answered so far: the recv after each of them has returned
\* and the program has gone on
Answered == IF pc \in {"connect", "count"} THEN 0 ELSE 1 + pos

\* get_pico_config has returned
Fetched == pc \in {"build", "loop", "recv", "process"}

(* C13: the config exchange is synchronous and ordered: the count request  *)
(* is sent first, then one per-slot request for each pos from 0 upwards,   *)
(* up to slotCount - 1, slotCount being byte 19 of the count response + 1; *)
(* a request is sent only when every request before it has been answered  *)
(* (at most one is outstanding); on completion the config table has        *)
(* exactly the keys 0 .. slotCount-1 and the connection is closed.         *)
C13_ExchangeOrdered ==
  /\ \A i \in 1..Len(sent) :
       sent[i] = IF i = 1 THEN CountRequest ELSE SlotRequest(i - 2)
  /\ Len(sent) \in {Answered, Answered + 1}
  /\ err = "" => Len(sent) = Answered
  /\ Answered > 0 =>
       /\ req_count = device.count[20] + 1
       /\ Len(sent) <= 1 + req_count
  /\ Fetched =>
       /\ Len(sent) = 1 + req_count
       /\ DOMAIN config = 0..(req_count - 1)
       /\ s = "closed"

\* an exchange of several slots completed
C13_Witness ==
  /\ Fetched /\ req_count >= 3
  /\ Len(sent) = 1 + req_count
  /\ sent[Len(sent)] = SlotRequest(req_count - 1)
  /\ DOMAIN config = 0..(req_count - 1)

-----------------------------------------------------------------------------
(* add_crc on the requests of the config exchange *)

\* the buffer a request was made from, and the two bytes appended to it
BufferOf(request) == SubSeq(request, 1, Len(request) - 2)

AppendedTo(request) == request[Len(request) - 1] * 256 + request[Len(request)]

\* the templates of get_pico_config: 14 bytes, and 33 bytes with pos in it
IsTemplate(buffer, i) ==
  IF i = 1 THEN buffer = <<0, 0, 0, 0, 0, 255, 2, 4, 140, 85, 75, 0, 3, 255>>
  ELSE /\ Len(buffer) = 33
       /\ SubSeq(buffer, 1, 14) = <<0, 0, 0, 0, 0, 255, 65, 4, 140, 85, 75, 0, 22, 255>>
       /\ buffer[20] = i - 2

(* C14 as claimed: with its default arguments add_crc computes the         *)
(* checksum over every byte of the buffer from index 1 through the last    *)
(* byte, appends it high byte first and leaves the bytes of the buffer     *)
(* unchanged: the buffer grows by exactly 2 bytes.                         *)
C14_CrcThroughLastByte ==
  \A i \in 1..Len(sent) :
    /\ IsTemplate(BufferOf(sent[i]), i)
    /\ AppendedTo(sent[i]) = crc_func(SubSeq(BufferOf(sent[i]), 2, Len(BufferOf(sent[i]))))

(* C14 amended: the checksum is computed over the bytes from index 1 up to *)
(* but not including the last byte of the buffer (buffer[1:-1]); it is     *)
(* appended high byte first, the bytes of the buffer stay unchanged and    *)
(* the buffer grows by exactly 2 bytes.                                    *)
C14_CrcBeforeLastByte ==
  \A i \in 1..Len(sent) :
    /\ IsTemplate(BufferOf(sent[i]), i)
    /\ AppendedTo(sent[i]) = crc_func(SubSeq(BufferOf(sent[i]), 2, Len(BufferOf(sent[i])) - 1))

\* the count request (checksum A8 C0) and three slot requests sent
C14_Witness ==
  /\ Len(sent) >= 4
  /\ Len(sent[1]) = 16 /\ sent[1][15] = 168 /\ sent[1][16] = 192
  /\ Len(sent[4]) = 35

-----------------------------------------------------------------------------
(* Frames whose field numbers are not their positions *)

\* a frame whose field at position k (from 0) has the value (0, 1000 + k) and
\* the number k, but for the positions i and j, which carry each other's
\* number (i = j: every field carries its position)
SwappedFrame(i, j) ==
  EncodeFrame(176,
    [k \in 1..FrameFields |->
       Plain(IF k - 1 = i THEN j ELSE IF k - 1 = j THEN i ELSE k - 1, 0, 1000 + (k - 1))])

InitOffsets ==
  \E d \in {ThermometerPico, BoatPico} :
    \E i, j \in 0..8 :
      /\ i <= j
      /\ AtProcess(d, ConfigOf(d), SentTo(d), SwappedFrame(i, j))

NextOffsets == Process

SpecOffsets == InitOffsets /\ [][NextOffsets]_vars

\* the fields of a frame in frame order (the flat field list)
RECURSIVE FieldList(_)
FieldList(bytes) ==
  IF Len(bytes) > 6 /\ getNextField(bytes).st = "ok"
  THEN <<getNextField(bytes)>> \o FieldList(getNextField(bytes).rest)
  ELSE <<>>

FlatList(msg) == FieldList(SliceFrom(msg, 14))

\* the flat list indexed by position, from 0
ByPosition(flat) == [k \in 0..(Len(flat) - 1) |-> flat[k + 1].data]

\* the flat list indexed by the field numbers carried (the last field of a
\* number counts)
ByNumber(flat) ==
  [nr \in {flat[k].nr : k \in 1..Len(flat)} |->
     flat[CHOOSE k \in 1..Len(flat) :
            flat[k].nr = nr /\ \A m \in 1..Len(flat) : flat[m].nr = nr => m <= k].data]

\* the entry of a thermometer, a current sensor or a battery with the
\* readings taken from fields, the sensor's values starting at its pos
EntryFrom(fields, id) ==
  LET descriptor == sensorList.at[id]
      type       == descriptor["type"]
      read == CASE type = s_thermometer -> readTemp(fields, PosOf(id))
                [] type = s_current     -> readCurrent(fields, PosOf(id))
                [] type = s_battery     -> readBatt(descriptor, fields, PosOf(id))
  IN  DictUpdate(descriptor, read.upd)

(* C15 as claimed: for every registered sensor with offset pos the         *)
(* interpreter reads the sensor's values starting at the pos-th field of   *)
(* the frame counted in frame order, also when the field numbers carried   *)
(* in the frame are not the consecutive integers 0, 1, 2, ...              *)
C15_ReadByPosition ==
  Emitted => \A id \in DOMAIN sensorList.at :
               Last(stdout)[id] = EntryFrom(ByPosition(FlatList(message)), id)

(* C15 amended: the interpreter reads the sensor's values from the fields  *)
(* that carry the field numbers pos, pos+1, ... (the frame is decoded into *)
(* a mapping from field number to value); this is the pos-th field in      *)
(* frame order only when the fields carry the numbers 0, 1, 2, ... in      *)
(* order.                                                                  *)
C15_ReadByNumber ==
  Emitted => \A id \in DOMAIN sensorList.at :
               Last(stdout)[id] = EntryFrom(ByNumber(FlatList(message)), id)

\* a snapshot of a frame in which field number 7 comes at position 8: the
\* thermometer at pos 7 shows the value 1008 of that field
C15_Witness ==
  /\ Emitted
  /\ FlatList(message)[9].nr = 7
  /\ \E id \in SensorsOf(s_thermometer) :
       /\ PosOf(id) = 7
       /\ Last(stdout)[id]["temperature"] = PyFloat(toTemperature(1008), 100)

-----------------------------------------------------------------------------
(* open_tcp *)

\* the program with an open_tcp that keeps running: every attempt ends, by
\* a connection or by socket.error (create_connection has a timeout)
SpecConnect == Init /\ [][Next]_vars /\ WF_vars(ConnectOk \/ ConnectFail)

(* C16: open_tcp makes at most max_retries attempts and terminates: it     *)
(* returns the connection at the first successful attempt and makes no     *)
(* attempt after it; when all attempts fail it has made exactly            *)
(* max_retries attempts, has waited only between two attempts (max_retries *)
(* - 1 waits, none after the last) and returns no connection.              *)
C16_BoundedConnect ==
  /\ [](/\ retries <= max_retries
        /\ sleeps = IF retries = max_retries THEN max_retries - 1 ELSE retries
        /\ (pc # "connect" /\ s = "none") => retries = max_retries
        /\ (pc = "connect") => s = "none")
  /\ [][pc # "connect" => (retries' = retries /\ sleeps' = sleeps)]_vars
  /\ [][(pc = "connect" /\ pc' # "connect") =>
          \/ s' = "open" /\ retries' = retries /\ sleeps' = sleeps
          \/ s' = "none" /\ retries' = max_retries]_vars
  /\ <>(pc # "connect")

\* open_tcp has returned None after five attempts and four waits
C16_Witness ==
  pc = "count" /\ s = "none" /\ retries = 5 /\ sleeps = 4 /\ sent = <<>>

-----------------------------------------------------------------------------
(* The divisor of the time-remaining estimate *)

(* C17: for every battery sensor and every frame in which the first        *)
(* component of the sensor's first element is not 65535, the               *)
(* time-remaining computation completes without a fault: the divisor       *)
(* current x stateOfCharge + 0.001 is never zero.                          *)
C17_DivisorNeverZero ==
  /\ err # "ZeroDivisionError"
  /\ ((Emitted \/ err # "") /\ BatteryFrame) =>
       \A id \in SensorsOf(s_battery) :
         LET frame == parseResponse(message).dict
             first == frame[PosOf(id)].s[1]
             raw   == frame[PosOf(id) + 1].s[2]
         IN  first # 65535 => divisor(signedCurrent(raw), stateOfCharge(first)) # 0

-----------------------------------------------------------------------------
(* The responses of the config exchange on the byte stream *)

(* C18: for every pos the entry stored at config[pos] is decoded from      *)
(* exactly the bytes of the device's response to the request that embedded *)
(* pos, no bytes of another response and none missing, for every way the   *)
(* stream splits the device's data across the receive calls.               *)
C18_EntryFromItsResponse ==
  pc \in {"slot", "build"} =>
    \A p \in DOMAIN config :
      LET whole == parseResponse(SlotResponse(device, p))
      IN  whole.ok /\ config[p] = whole.dict


(* C19: the decoding loop ends *)

\* every pass of parseResponse's loop over the bytes, from the first, finds at
\* least 7 bytes and leaves at least 7 fewer; a pass that raises ends the loop
RECURSIVE LoopShortens(_)
LoopShortens(response) ==
  IF Len(response) > 6
  THEN LET f == getNextField(response)
       IN  IF f.st = "ok"
           THEN IF Len(f.rest) + 7 <= Len(response) THEN LoopShortens(f.rest) ELSE FALSE
           ELSE TRUE
  ELSE TRUE

\* the bytes a recv can return of the device's response: every prefix of it
Receivable ==
  LET response == SlotResponse(device, 0)
  IN  {SubSeq(response, 1, n) : n \in 1..Len(response)}

\* C19: parseResponse terminates on every byte string whose fields are of types
\* 1, 3 and 4: its loop runs only while at least 7 bytes remain and every pass
\* shortens the remaining bytes by at least 7, a type 3 field cut short and a
\* type 4 field without terminator included.
C19_LoopTerminates ==
  Decoded =>
    \A received \in Receivable :
      /\ LoopShortens(SliceFrom(received, 14))
      /\ parseResponse(received).ok \in BOOLEAN

\* C19 witness: the program has decoded a response whose last field, a text,
\* lost its terminator to the stream; the loop ended with both fields stored
C19_Witness ==
  /\ pos = 1 /\ err = "" /\ Len(inbox) = 4
  /\ Len(Encoded) = 2
  /\ Encoded[1].ty = 3 /\ Encoded[1].nr = 0
  /\ Encoded[2].ty = 4 /\ Encoded[2].nr = 7 /\ Encoded[2].v = PyStr(<<72, 105>>)
  /\ DOMAIN config[0] = {0, 7}
  /\ config[0][7] = PyStr(<<72>>)
=============================================================================
